---- MODULE Spec2Model ----
(***************************************************************************)
(* Model of ptsim.c: a page-table simulator over 16 KiB of simulated RAM.  *)
(* Page 0 holds the free map (bytes 0..63) and the page-table pointer      *)
(* table (bytes 64..255).  Each command of main() is one action.           *)
(*                                                                         *)
(* mem is the array `unsigned char mem[MEM_SIZE]`, kept page by page:      *)
(* mem[pg][off] is the byte at address pg * PAGE_SIZE + off.  Page 0 is    *)
(* always present; another page is present only while it holds a nonzero   *)
(* byte, and every byte of an absent page is 0.                            *)
(***************************************************************************)
EXTENDS Integers, Sequences, FiniteSets, TLC

MEM_SIZE == 16384
PAGE_SIZE == 256
PAGE_COUNT == 64
PAGE_SHIFT == 8
PTP_OFFSET == 64

\* Sentinel returned by allocate_page() when it finds no free page (0xff).
NO_PAGE == 255

\* ---- bounds of the model ----
\* Number of commands on the command line.
MaxOps == 4
\* Process numbers used by the commands are 0..MaxProcId.
MaxProcId == 1

Procs == 0..MaxProcId
\* page_count arguments of "np": small ones, and the one that uses up a fresh
\* pool of 63 pages exactly (1 page table + 62 data pages).
PageCounts == {0, 1, 62}
\* Number of commands in the runs that follow the scan of allocate_page()
\* iteration by iteration.
MaxScanOps == 2
\* Largest page_count of an "np" run as the first command on fresh memory.
MaxFreshPages == 64
FreshPageCounts == 0..MaxFreshPages
\* Process numbers and page counts of the runs that also use "sb" and "lb".
MemProcs == {0}
MemPageCounts == {1}
\* Virtual addresses of "sb"/"lb": page 0 offset 3, page 1 offset 64,
\* page 3 offset 3.
VAddrs == {3, 320, 771}
\* Values of "sb": one byte value and one wider than a byte (263 = 256 + 7).
Values == {1, 263}
\* Bytes an out-of-bounds read of mem[] may yield (memory that follows the
\* array); the crash of the process is the other outcome.
OobBytes == {0, 1}

\* scan is the position of a call of allocate_page() that is followed
\* iteration by iteration (pc = "idle" when no call is followed).
VARIABLES mem, crashed, last, prev, ops, scan

vars == <<mem, crashed, last, prev, ops, scan>>

\* ---- the byte array ----
ZeroPage == [o \in 0..(PAGE_SIZE - 1) |-> 0]

\* mem[] after memset(mem, 0, MEM_SIZE).
EmptyMem == (0 :> ZeroPage)

InBounds(a) == a \in 0..(MEM_SIZE - 1)

\* mem[a], for an address inside the array.
Read(m, a) ==
  LET pg == a \div PAGE_SIZE
  IN IF pg \in DOMAIN m THEN m[pg][a % PAGE_SIZE] ELSE 0

\* mem[a] = v, for an address inside the array: v is converted to unsigned
\* char.  A page other than page 0 that holds only zeros again is dropped from
\* the representation.
Write(m, a, v) ==
  LET b == v % 256
      pg == a \div PAGE_SIZE
      off == a % PAGE_SIZE
  IN IF pg \in DOMAIN m
     THEN LET w == [m EXCEPT ![pg][off] = b]
          IN IF b = 0 /\ pg # 0 /\ w[pg] = ZeroPage
             THEN (0 :> m[0]) @@ [q \in (DOMAIN m) \ {pg} |-> m[q]]
             ELSE w
     ELSE IF b = 0 THEN m
     ELSE (pg :> [ZeroPage EXCEPT ![off] = b]) @@ m

\* TLC evaluates a definition or an argument when it is first used.  A loop of
\* the program is split into two halves run one after the other; Evaluated(x)
\* is TRUE and makes TLC compute the first half before it starts the second.
Evaluated(x) == x = x

RECURSIVE BitOr(_, _)
BitOr(a, b) ==
  IF a = 0 THEN b
  ELSE IF b = 0 THEN a
  ELSE (IF a % 2 = 1 \/ b % 2 = 1 THEN 1 ELSE 0) + 2 * BitOr(a \div 2, b \div 2)

\* (page << PAGE_SHIFT) | offset.  The shifted page has its low PAGE_SHIFT bits
\* clear, so the bitwise or with an offset below 2^PAGE_SHIFT is their sum.
get_address(page, offset) ==
  IF offset \in 0..(2 ^ PAGE_SHIFT - 1)
  THEN page * (2 ^ PAGE_SHIFT) + offset
  ELSE BitOr(page * (2 ^ PAGE_SHIFT), offset)

initialize_mem_unmarked == EmptyMem

initialize_mem == Write(EmptyMem, get_address(0, 0), 1)

get_page_table(m, proc_num) == Read(m, get_address(0, PTP_OFFSET + proc_num))

\* ---- the page allocator ----
\* The do-while scan: map_entry is pre-incremented before the entry is tested
\* and the loop goes on while map_entry < PAGE_COUNT and nothing was found, so
\* the entries tested are 1, 2, ... up to and including PAGE_COUNT; the result
\* is the first of them that holds 0, or -1.  mem[map_entry] is a byte of page 0
\* for each of them.
TestedEntries == 1..PAGE_COUNT

ScanFreeMap(m) ==
  LET zero == {e \in TestedEntries : m[0][e] = 0}
  IN IF zero = {} THEN -1
     ELSE CHOOSE e \in zero : \A f \in zero : e <= f

allocate_page_nomark(m) ==
  LET free_page == ScanFreeMap(m)
  IN IF free_page = -1
     THEN [mem |-> m, ret |-> NO_PAGE]
     ELSE [mem |-> m, ret |-> free_page]

allocate_page(m) ==
  LET free_page == ScanFreeMap(m)
  IN IF free_page = -1
     THEN [mem |-> m, ret |-> NO_PAGE]
     ELSE [mem |-> Write(m, free_page, 1), ret |-> free_page]

deallocate_page(m, page_number) == Write(m, page_number, 0)

\* ---- new_process ----
\* The record of one call of allocate_page(): memory before, result, memory
\* after.
AllocCall(m, a) == [pre |-> m, ret |-> a.ret, post |-> a.mem]

NoCall == [pre |-> EmptyMem, ret |-> -1, post |-> EmptyMem]

NewProcessIter_wrongslot(st, page_table_page, i) ==
  IF st.oom # "none" THEN st
  ELSE LET a == allocate_page(st.mem)
           new_page == a.ret
           addr == get_address(page_table_page, i + 1)
       IN IF new_page = NO_PAGE
          THEN [st EXCEPT !.mem = a.mem, !.oom = "data page", !.index = i,
                          !.call = AllocCall(st.mem, a)]
          ELSE [st EXCEPT !.mem = IF InBounds(addr) THEN Write(a.mem, addr, new_page)
                                  ELSE a.mem,
                          !.index = i + 1,
                          !.pages = st.pages \cup {new_page},
                          !.call = AllocCall(st.mem, a),
                          !.ub = st.ub \/ ~InBounds(addr)]

\* One iteration of the for loop of new_process, on the state st the earlier
\* iterations left: nothing once the function has returned (oom set).  pages
\* collects the page numbers allocate_page() has returned to this call of
\* new_process, call is the latest call of allocate_page(), ub tells whether a
\* page-table entry was written outside mem[].
NewProcessIter(st, page_table_page, i) ==
  IF st.oom # "none" THEN st
  ELSE LET a == allocate_page(st.mem)
           new_page == a.ret
           addr == get_address(page_table_page, i)
       IN IF new_page = NO_PAGE
          THEN [st EXCEPT !.mem = a.mem, !.oom = "data page", !.index = i,
                          !.call = AllocCall(st.mem, a)]
          ELSE [st EXCEPT !.mem = IF InBounds(addr) THEN Write(a.mem, addr, new_page)
                                  ELSE a.mem,
                          !.index = i + 1,
                          !.pages = st.pages \cup {new_page},
                          !.call = AllocCall(st.mem, a),
                          !.ub = st.ub \/ ~InBounds(addr)]

\* The iterations i .. i+n-1 of the for loop, in ascending order.
RECURSIVE NewProcessLoop(_, _, _, _)
NewProcessLoop(st, page_table_page, i, n) ==
  IF n <= 0 THEN st
  ELSE IF n = 1 THEN NewProcessIter(st, page_table_page, i)
  ELSE LET h == n \div 2
           first == NewProcessLoop(st, page_table_page, i, h)
       IN IF Evaluated(first.index)
          THEN NewProcessLoop(first, page_table_page, i + h, n - h)
          ELSE first

new_process(m, proc_num, page_count) ==
  LET a == allocate_page(m)
      page_table_page == a.ret
  IN IF page_table_page = NO_PAGE
     THEN [mem |-> a.mem, oom |-> "page table", index |-> 0, pages |-> {},
           call |-> AllocCall(m, a), ub |-> FALSE]
     ELSE NewProcessLoop([mem |-> Write(a.mem, PTP_OFFSET + proc_num, page_table_page),
                          oom |-> "none", index |-> 0, pages |-> {page_table_page},
                          call |-> AllocCall(m, a), ub |-> FALSE],
                         page_table_page, 0, page_count)

\* ---- kill_process ----
\* TRUE when the entries i .. i+n-1 of the page table all hold 0: the loop
\* does nothing in these iterations.
EntriesAllZero(m, page_table_page, i, n) ==
  \/ page_table_page \notin DOMAIN m
  \/ \A o \in i..(i + n - 1) : m[page_table_page][o] = 0

\* The iterations i .. i+n-1 of the loop over the entries of the page table,
\* for a page table inside mem[], in ascending order: the first half of the
\* range, then the second half on the memory the first half left.  Every read
\* sees the writes of the earlier iterations.
RECURSIVE KillLoop(_, _, _, _)
KillLoop(m, page_table_page, i, n) ==
  IF n = 0 \/ EntriesAllZero(m, page_table_page, i, n) THEN m
  ELSE IF n = 1
  THEN LET page_i == get_address(page_table_page, i)
       IN IF Read(m, page_i) # 0
          THEN deallocate_page(m, Read(m, page_i))
          ELSE m
  ELSE LET h == n \div 2
           first == KillLoop(m, page_table_page, i, h)
       IN IF Evaluated(DOMAIN first)
          THEN KillLoop(first, page_table_page, i + h, n - h)
          ELSE first

RECURSIVE DeallocAll(_, _)
DeallocAll(m, S) ==
  IF S = {} THEN m
  ELSE LET x == CHOOSE y \in S : TRUE
       IN DeallocAll(deallocate_page(m, x), S \ {x})

\* The memories kill_process can leave.  A page table pointer of 64 or more
\* makes the loop read past the end of mem[]: the bytes it finds there are
\* any subset of OobBytes.
kill_process_keeps_table(m, proc_num) ==
  LET page_table_page == Read(m, proc_num + PTP_OFFSET)
      m1 == Write(m, proc_num + PTP_OFFSET, 0)
  IN IF page_table_page < PAGE_COUNT
     THEN {KillLoop(m1, page_table_page, 0, 256)}
     ELSE {DeallocAll(m1, S) : S \in SUBSET (OobBytes \ {0})}

kill_process(m, proc_num) ==
  LET page_table_page == Read(m, proc_num + PTP_OFFSET)
      m1 == Write(m, proc_num + PTP_OFFSET, 0)
  IN IF page_table_page < PAGE_COUNT
     THEN {deallocate_page(KillLoop(m1, page_table_page, 0, 256), page_table_page)}
     ELSE {deallocate_page(DeallocAll(m1, S), page_table_page) :
             S \in SUBSET (OobBytes \ {0})}

KillReadsOutside(m, proc_num) == Read(m, proc_num + PTP_OFFSET) >= PAGE_COUNT

\* ---- address translation ----
\* The physical addresses get_physical_addr can return: one, unless the page
\* table entry lies outside mem[].
get_physical_addr_nooffset(m, proc_num, v_addr) ==
  LET page_table_page == Read(m, proc_num + PTP_OFFSET)
      virt_page == v_addr \div (2 ^ PAGE_SHIFT)
      entry == get_address(page_table_page, virt_page)
  IN {get_address(physical_page, 0) :
        physical_page \in IF InBounds(entry) THEN {Read(m, entry)} ELSE OobBytes}

get_physical_addr(m, proc_num, v_addr) ==
  LET page_table_page == Read(m, proc_num + PTP_OFFSET)
      virt_page == v_addr \div (2 ^ PAGE_SHIFT)
      entry == get_address(page_table_page, virt_page)
      offset == v_addr % 256
  IN {get_address(physical_page, offset) :
        physical_page \in IF InBounds(entry) THEN {Read(m, entry)} ELSE OobBytes}

TranslateReadsOutside(m, proc_num, v_addr) ==
  ~InBounds(get_address(Read(m, proc_num + PTP_OFFSET), v_addr \div (2 ^ PAGE_SHIFT)))

\* ---- the commands ----
NoOp == [op |-> "init", proc |-> -1, arg |-> -1, value |-> -1, oom |-> "none",
         index |-> 0, pages |-> {}, call |-> NoCall, pre |-> EmptyMem,
         paddr |-> -1, ub |-> FALSE]

ScanIdle == [pc |-> "idle", map_entry |-> 0, free_page |-> -1,
             proc |-> -1, page_count |-> -1]

Init ==
  /\ mem = initialize_mem
  /\ crashed = FALSE
  /\ last = NoOp
  /\ prev = NoOp
  /\ ops = 0
  /\ scan = ScanIdle

\* The effect of one command: m is the memory it leaves, rec its record, ub
\* tells whether it accessed mem[] out of bounds (it may then have crashed).
Effect(m, rec, ub) ==
  /\ ~crashed
  /\ ops < MaxOps
  /\ mem' = m
  /\ last' = rec
  /\ prev' = last
  /\ ops' = ops + 1
  /\ crashed' \in (IF ub THEN {TRUE, FALSE} ELSE {FALSE})

\* A command run as a whole.
Step(m, rec, ub) ==
  /\ scan.pc = "idle"
  /\ Effect(m, rec, ub)
  /\ scan' = scan

NewProcess(proc_num, page_count) ==
  LET r == new_process(mem, proc_num, page_count)
  IN Step(r.mem,
          [NoOp EXCEPT !.op = "np", !.proc = proc_num, !.arg = page_count,
                       !.oom = r.oom, !.index = r.index, !.pages = r.pages,
                       !.call = r.call, !.pre = mem, !.ub = r.ub],
          r.ub)

KillProcess(proc_num) ==
  \E m \in kill_process(mem, proc_num) :
    Step(m,
         [NoOp EXCEPT !.op = "kp", !.proc = proc_num, !.pre = mem,
                      !.ub = KillReadsOutside(mem, proc_num)],
         KillReadsOutside(mem, proc_num))

StoreValue(proc_num, v_addr, value) ==
  \E p_addr \in get_physical_addr(mem, proc_num, v_addr) :
    LET ub == TranslateReadsOutside(mem, proc_num, v_addr) \/ ~InBounds(p_addr)
    IN Step(IF InBounds(p_addr) THEN Write(mem, p_addr, value) ELSE mem,
            [NoOp EXCEPT !.op = "sb", !.proc = proc_num, !.arg = v_addr,
                         !.value = value, !.pre = mem, !.paddr = p_addr,
                         !.ub = ub],
            ub)

LoadValue(proc_num, virt_addr) ==
  \E physical_addr \in get_physical_addr(mem, proc_num, virt_addr) :
    \E value \in IF InBounds(physical_addr) THEN {Read(mem, physical_addr)} ELSE OobBytes :
      LET ub == TranslateReadsOutside(mem, proc_num, virt_addr) \/ ~InBounds(physical_addr)
      IN Step(mem,
              [NoOp EXCEPT !.op = "lb", !.proc = proc_num, !.arg = virt_addr,
                           !.value = value, !.pre = mem, !.paddr = physical_addr,
                           !.ub = ub],
              ub)

\* ---- np with the first scan of allocate_page() followed step by step ----
\* The body of the do-while loop: if (mem[++map_entry] == 0) free_page = map_entry;
ScanIter_noincrement(sc, m) ==
  LET e == sc.map_entry
  IN [sc EXCEPT !.map_entry = e,
                !.free_page = IF m[0][e] = 0 THEN e ELSE sc.free_page]

ScanIter(sc, m) ==
  LET e == sc.map_entry + 1
  IN [sc EXCEPT !.map_entry = e,
                !.free_page = IF m[0][e] = 0 THEN e ELSE sc.free_page]

\* The loop condition: while (map_entry < PAGE_COUNT && free_page < 0).
ScanContinues(sc) == sc.map_entry < PAGE_COUNT /\ sc.free_page < 0

\* main() calls new_process, whose first statement calls allocate_page():
\* map_entry = 0 and free_page = -1.
NpBegin(proc_num, page_count) ==
  /\ ~crashed
  /\ ops < MaxScanOps
  /\ scan.pc = "idle"
  /\ scan' = [pc |-> "loop", map_entry |-> 0, free_page |-> -1,
              proc |-> proc_num, page_count |-> page_count]
  /\ UNCHANGED <<mem, crashed, last, prev, ops>>

\* One iteration of the do-while loop, then the test of its condition.
ScanStep ==
  /\ scan.pc = "loop"
  /\ LET sc == ScanIter(scan, mem)
     IN scan' = IF ScanContinues(sc) THEN sc ELSE [sc EXCEPT !.pc = "done"]
  /\ UNCHANGED <<mem, crashed, last, prev, ops>>

\* The rest of new_process once the scan has ended.
NpFinish ==
  /\ scan.pc = "done"
  /\ LET r == new_process(mem, scan.proc, scan.page_count)
     IN Effect(r.mem,
               [NoOp EXCEPT !.op = "np", !.proc = scan.proc,
                            !.arg = scan.page_count,
                            !.oom = r.oom, !.index = r.index, !.pages = r.pages,
                            !.call = r.call, !.pre = mem, !.ub = r.ub],
               r.ub)
  /\ scan' = ScanIdle

NextScan ==
  \/ \E p \in Procs, n \in PageCounts : NpBegin(p, n)
  \/ ScanStep
  \/ NpFinish
  \/ \E p \in Procs : ops < MaxScanOps /\ KillProcess(p)

\* The program is sequential: a loop that can go on goes on.
SpecScan == Init /\ [][NextScan]_vars /\ WF_vars(ScanStep)

\* The lifecycle commands only: np and kp.
NextLife ==
  \/ \E p \in Procs, n \in PageCounts : NewProcess(p, n)
  \/ \E p \in Procs : KillProcess(p)

Spec == Init /\ [][NextLife]_vars

\* All four commands that touch memory: np, kp, sb, lb.
Next ==
  \/ \E p \in MemProcs, n \in MemPageCounts : NewProcess(p, n)
  \/ \E p \in MemProcs : KillProcess(p)
  \/ \E p \in MemProcs, a \in VAddrs, v \in Values : StoreValue(p, a, v)
  \/ \E p \in MemProcs, a \in VAddrs : LoadValue(p, a)

SpecMem == Init /\ [][Next]_vars

\* One np command on freshly initialized memory, with any page count up to
\* MaxFreshPages.
NextFresh ==
  \E p \in Procs, n \in FreshPageCounts : ops = 0 /\ NewProcess(p, n)

SpecFresh == Init /\ [][NextFresh]_vars

TypeOK ==
  /\ 0 \in DOMAIN mem
  /\ DOMAIN mem \subseteq 0..(PAGE_COUNT - 1)
  /\ \A pg \in DOMAIN mem :
       /\ DOMAIN mem[pg] = 0..(PAGE_SIZE - 1)
       /\ \A o \in 0..(PAGE_SIZE - 1) : mem[pg][o] \in 0..255
       /\ pg # 0 => mem[pg] # ZeroPage
  /\ crashed \in BOOLEAN
  /\ ops \in 0..MaxOps

\* ---- views of page 0 ----
\* The free map: bytes 0 .. PAGE_COUNT-1 of page 0.
FreeMap(m) == [k \in 0..(PAGE_COUNT - 1) |-> Read(m, get_address(0, k))]

\* The pages 1 .. PAGE_COUNT-1 whose free-map entry is 0.
FreePages(m) == {k \in 1..(PAGE_COUNT - 1) : Read(m, get_address(0, k)) = 0}

\* Process numbers that fit the pointer table: 0 .. PAGE_SIZE - PTP_OFFSET - 1.
AllProcs == 0..(PAGE_SIZE - PTP_OFFSET - 1)

Lowest(S) == CHOOSE k \in S : \A j \in S : k <= j

\* ---- C1 ----
\* C1: every call of allocate_page() returns the lowest-numbered page of
\* 1..63 whose free-map entry is 0 and leaves that entry nonzero; with no such
\* page it returns the sentinel 0xff.  Stated of the latest call made by the
\* last np command.
C1_AllocateLowestFree ==
  (last.op = "np" /\ last.call # NoCall) =>
    LET free == FreePages(last.call.pre)
    IN IF free = {}
       THEN last.call.ret = NO_PAGE
       ELSE /\ last.call.ret = Lowest(free)
            /\ Read(last.call.post, last.call.ret) # 0

\* ---- C2 ----
\* C2: np p n that reports no OOM, followed at once by kp p, leaves the free
\* map as it was before the np (stated of the runs without an out-of-bounds
\* access).
C2_CreateDestroyRestoresFreeMap ==
  (/\ last.op = "kp" /\ prev.op = "np" /\ last.proc = prev.proc
   /\ prev.oom = "none" /\ ~last.ub /\ ~prev.ub)
  => FreeMap(mem) = FreeMap(prev.pre)

\* ---- C3 ----
\* TRUE when the virtual page of v_addr has a nonzero entry, naming a page of
\* mem[], in the page table of proc_num.
Mapped(m, proc_num, v_addr) ==
  LET entry == get_address(get_page_table(m, proc_num), v_addr \div (2 ^ PAGE_SHIFT))
  IN /\ InBounds(entry)
     /\ Read(m, entry) \in 1..(PAGE_COUNT - 1)

\* C3: sb p addr v followed at once by lb p addr loads v mod 256, when the
\* virtual page of addr is mapped (stated of the runs without an out-of-bounds
\* access).
C3_StoreThenLoad ==
  (/\ last.op = "lb" /\ prev.op = "sb"
   /\ last.proc = prev.proc /\ last.arg = prev.arg
   /\ Mapped(prev.pre, prev.proc, prev.arg)
   /\ ~last.ub /\ ~prev.ub)
  => last.value = prev.value % 256

\* ---- C4 ----
\* C4: kp p for a process whose pointer-table entry is 0 changes no byte of
\* memory.
C4_DestroyAbsentIsNoOp ==
  (last.op = "kp" /\ get_page_table(last.pre, last.proc) = 0) => mem = last.pre

\* ---- C5 ----
\* C5: the free-map entry of page 0 is 1 in every state.
C5_PageZeroReserved == Read(mem, get_address(0, 0)) = 1

\* ---- C6 ----
\* C6: every nonzero pointer-table entry names a page of mem[] whose free-map
\* entry is nonzero.
C6_DirectoryEntryAllocated ==
  \A p \in AllProcs :
    LET t == get_page_table(mem, p)
    IN t # 0 => (t < PAGE_COUNT /\ FreeMap(mem)[t] # 0)

\* ---- C7 ----
\* C7: for every process with a nonzero pointer-table entry, every nonzero entry
\* of its page table names a page of mem[] whose free-map entry is nonzero.
C7_PageTableEntryAllocated ==
  \A p \in AllProcs :
    LET t == get_page_table(mem, p)
    IN (t # 0 /\ t < PAGE_COUNT) =>
         \A v \in 0..(PAGE_SIZE - 1) :
           LET e == Read(mem, get_address(t, v))
           IN e # 0 => (e < PAGE_COUNT /\ FreeMap(mem)[e] # 0)

\* ---- C8 ----
\* C8: np p n reports OOM exactly when n exceeds the number of free pages
\* minus one.
C8_OomExactlyWhenShort ==
  last.op = "np" =>
    ((last.oom # "none") <=> (last.arg > Cardinality(FreePages(last.pre)) - 1))

\* ---- C9 ----
\* C9: np p n with no free page among 1..63 reports OOM for the page table
\* and changes no pointer-table entry.
C9_NoDirectoryEntryOnExhaustion ==
  (last.op = "np" /\ FreePages(last.pre) = {}) =>
    /\ last.oom = "page table"
    /\ \A q \in AllProcs : get_page_table(mem, q) = get_page_table(last.pre, q)

\* ---- C10 ----
\* C10: when two np commands for different processes follow each other and
\* neither reports OOM, the pages allocate_page() returned to the first and
\* the pages it returned to the second are disjoint, and page 0 is in neither.
C10_SequentialCreatesDisjoint ==
  (/\ last.op = "np" /\ prev.op = "np" /\ last.proc # prev.proc
   /\ last.oom = "none" /\ prev.oom = "none")
  => /\ last.pages \cap prev.pages = {}
     /\ 0 \notin last.pages \cup prev.pages

\* Two creations in a row, each given a page table and a data page.
C10_Witness ==
  /\ last.op = "np" /\ prev.op = "np" /\ last.proc # prev.proc
  /\ last.oom = "none" /\ prev.oom = "none"
  /\ Cardinality(last.pages) = 2 /\ Cardinality(prev.pages) = 2

\* ---- C11 ----
\* C11: kp p for a process whose pointer-table entry names a page t of 1..63
\* leaves the entry 0 and leaves free page t and every page of mem[] that a
\* nonzero entry of the page table named when kp was called.
C11_DestroyFreesOwnedPages ==
  (last.op = "kp" /\ get_page_table(last.pre, last.proc) \in 1..(PAGE_COUNT - 1)) =>
    LET t == get_page_table(last.pre, last.proc)
    IN /\ get_page_table(mem, last.proc) = 0
       /\ FreeMap(mem)[t] = 0
       /\ \A v \in 0..(PAGE_SIZE - 1) :
            LET x == Read(last.pre, get_address(t, v))
            IN (x # 0 /\ x < PAGE_COUNT) => FreeMap(mem)[x] = 0

\* A process with a page table and a mapped, allocated data page was killed.
C11_Witness ==
  /\ last.op = "kp"
  /\ get_page_table(last.pre, last.proc) \in 1..(PAGE_COUNT - 1)
  /\ LET x == Read(last.pre, get_address(get_page_table(last.pre, last.proc), 0))
     IN x \in 1..(PAGE_COUNT - 1) /\ FreeMap(last.pre)[x] # 0

\* ---- C12 ----
\* The pointer-table entries of the processes other than p are as in m0.
OtherEntriesUnchanged(m0, m, p) ==
  \A q \in AllProcs \ {p} : get_page_table(m, q) = get_page_table(m0, q)

\* C12: np p 64 as the first command takes page 1 as page table, allocates
\* pages 2..63 into entries 0..61 and reports OOM for the data page of index
\* 62; nothing is rolled back: the pointer-table entry of p is 1, entries
\* 0..61 stay mapped, entries 62 and above stay 0, no other pointer-table
\* entry changes.
C12_FreshCreate64 ==
  (last.op = "np" /\ ops = 1 /\ last.arg = 64) =>
    /\ last.oom = "data page"
    /\ last.index = 62
    /\ get_page_table(mem, last.proc) = 1
    /\ \A i \in 0..61 : Read(mem, get_address(1, i)) = i + 2
    /\ \A i \in 62..(PAGE_SIZE - 1) : Read(mem, get_address(1, i)) = 0
    /\ OtherEntriesUnchanged(last.pre, mem, last.proc)

\* ---- C13 ----
\* C13: np p n with n <= 62 as the first command sets the pointer-table entry
\* of p to 1, sets page-table entry i to i + 2 for every i < n, and leaves
\* exactly the pages 0..n+1 marked in the free map.
C13_FreshCreateLayout ==
  (last.op = "np" /\ ops = 1 /\ last.arg <= 62) =>
    /\ get_page_table(mem, last.proc) = 1
    /\ \A i \in 0..(last.arg - 1) : Read(mem, get_address(1, i)) = i + 2
    /\ {k \in 0..(PAGE_COUNT - 1) : FreeMap(mem)[k] # 0} = 0..(last.arg + 1)

\* The largest such creation: 62 data pages.
C13_Witness ==
  /\ last.op = "np" /\ ops = 1 /\ last.arg = 62
  /\ Read(mem, get_address(1, 61)) = 63

\* ---- C14 ----
\* C14: right after initialization the free map marks page 0 and no other
\* page, and every pointer-table entry is 0.
C14_InitialMemory ==
  ops = 0 =>
    /\ FreeMap(mem)[0] # 0
    /\ \A k \in 1..(PAGE_COUNT - 1) : FreeMap(mem)[k] = 0
    /\ \A p \in AllProcs : get_page_table(mem, p) = 0

\* The state initialize_mem() leaves, before any command.
C14_Witness == ops = 0 /\ last.op = "init" /\ ~crashed /\ 0 \in DOMAIN mem

\* ---- C15 ----
\* The byte of the page table of proc_num, as named by the pointer table in m,
\* at index v_addr >> 8.
TableEntry(m, proc_num, v_addr) ==
  Read(m, get_page_table(m, proc_num) * PAGE_SIZE + v_addr \div 256)

\* C15: the physical address sb and lb compute for process p and virtual
\* address va is (entry << 8) | (va & 0xff), entry being the byte at index
\* va >> 8 of the page the pointer table names for p; with an entry of 0 the
\* address lies in page 0; the translation (and the load after it) changes no
\* byte of memory.  Stated for page tables inside mem[].
C15_Translate ==
  (/\ last.op \in {"sb", "lb"}
   /\ get_page_table(last.pre, last.proc) < PAGE_COUNT)
  => LET e == TableEntry(last.pre, last.proc, last.arg)
     IN /\ last.paddr = BitOr(e * 256, last.arg % 256)
        /\ e = 0 => last.paddr \in 0..(PAGE_SIZE - 1)
        /\ last.op = "lb" => mem = last.pre

\* A load through an unmapped virtual page, at a nonzero offset.
C15_Witness ==
  /\ last.op = "lb"
  /\ get_page_table(last.pre, last.proc) < PAGE_COUNT
  /\ TableEntry(last.pre, last.proc, last.arg) = 0
  /\ last.paddr = last.arg % 256
  /\ last.paddr # 0

\* ---- C16 ----
\* C16: after np p n that reports no OOM, entries 0..n-1 of the page table of
\* p are nonzero and pairwise distinct and entries n..255 are 0.  Stated for
\* page tables inside mem[].
C16_NewTableHasOnlyOwnEntries ==
  (/\ last.op = "np" /\ last.oom = "none"
   /\ get_page_table(mem, last.proc) < PAGE_COUNT)
  => LET t == get_page_table(mem, last.proc)
         E(i) == Read(mem, get_address(t, i))
     IN /\ \A i \in 0..(last.arg - 1) : E(i) # 0
        /\ \A i, j \in 0..(last.arg - 1) : i # j => E(i) # E(j)
        /\ \A i \in last.arg..(PAGE_SIZE - 1) : E(i) = 0

\* ---- C17 ----
\* The processes with a nonzero pointer-table entry.
Live(m) == {p \in AllProcs : get_page_table(m, p) # 0}

\* The pages named by the nonzero entries of the page table of p (none when
\* the pointer-table entry names no page of mem[]).
MappedPages(m, p) ==
  LET t == get_page_table(m, p)
  IN IF t < PAGE_COUNT
     THEN {Read(m, get_address(t, v)) : v \in 0..(PAGE_SIZE - 1)} \ {0}
     ELSE {}

\* C17: no page is shared between live processes: no two have the same page
\* table page, no page is mapped by two of them, and no page table page is a
\* mapped page of any of them.
C17_NoSharedPages ==
  \A p, q \in Live(mem) :
    /\ p # q => get_page_table(mem, p) # get_page_table(mem, q)
    /\ p # q => MappedPages(mem, p) \cap MappedPages(mem, q) = {}
    /\ get_page_table(mem, p) \notin MappedPages(mem, q)

\* ---- C18 ----
\* C18: kp p leaves every other process q as it was: its pointer-table entry
\* is unchanged, its page table page stays allocated, and when q was created
\* by the command just before, the pages that creation allocated stay
\* allocated (stated of the runs without an out-of-bounds access).
C18_DestroyLeavesOthers ==
  (last.op = "kp" /\ ~last.ub) =>
    /\ \A q \in AllProcs \ {last.proc} :
         LET t == get_page_table(last.pre, q)
         IN /\ get_page_table(mem, q) = t
            /\ (t \in 1..(PAGE_COUNT - 1) /\ FreeMap(last.pre)[t] # 0)
                 => FreeMap(mem)[t] # 0
    /\ (prev.op = "np" /\ prev.proc # last.proc) =>
         \A x \in prev.pages \cap 1..(PAGE_COUNT - 1) : FreeMap(mem)[x] # 0

\* ---- C19 ----
\* The addresses of page 0 whose byte differs between m0 and m1.
ChangedInPageZero(m0, m1) ==
  {a \in 0..(PAGE_SIZE - 1) : Read(m0, a) # Read(m1, a)}

\* TRUE when m0 and m1 hold the same bytes outside page 0.
SameOutsidePageZero(m0, m1) ==
  /\ DOMAIN m0 = DOMAIN m1
  /\ \A pg \in DOMAIN m0 \ {0} : m0[pg] = m1[pg]

\* C19: a call of allocate_page() changes at most one byte, the free-map
\* entry (offset 1..63 of page 0) of the page it returns, changes no byte of
\* the pointer table, and changes nothing when it returns 0xff.  Stated of the
\* latest call made by the last np command.
C19_AllocateWritesOneFreeMapByte ==
  (last.op = "np" /\ last.call # NoCall) =>
    LET changed == ChangedInPageZero(last.call.pre, last.call.post)
    IN /\ SameOutsidePageZero(last.call.pre, last.call.post)
       /\ changed \subseteq {last.call.ret}
       /\ changed \subseteq 1..(PAGE_COUNT - 1)
       /\ last.call.ret = NO_PAGE => changed = {}

\* ---- C20 ----
\* C20: every command is one total step of the model; the free-page scan of
\* allocate_page(), followed iteration by iteration, never tests an entry
\* beyond PAGE_COUNT and every scan that has started leaves its loop, whether
\* or not a free page exists.
C20_ScanTerminates ==
  /\ [](scan.map_entry <= PAGE_COUNT)
  /\ (scan.pc = "loop") ~> (scan.pc = "done")

\* A scan that ended after PAGE_COUNT entries without finding a free page.
C20_Witness ==
  /\ scan.pc = "done"
  /\ scan.map_entry = PAGE_COUNT
  /\ scan.free_page = -1
  /\ FreePages(mem) = {}

====
